---- MODULE Spec2Model ----
(***************************************************************************)
(* Model of timesheet.py: the employees and timesheet tables of            *)
(* company_data.db, the marker file last_update.txt, employee sessions     *)
(* that submit entries through employee_view / add_timesheet_entry, and    *)
(* dashboard sessions that poll the marker in manager_dashboard.           *)
(*                                                                         *)
(* Time.  datetime.now(IST) is read in two resolutions.  The wall clock    *)
(* (day, tod) gives the calendar date and the time of day, drawn from the  *)
(* representative instants of TimePoints; it never runs backward.  The     *)
(* float now.timestamp() written to the marker has microsecond resolution: *)
(* it is modelled by the counter clock, which every stamping read of       *)
(* add_timesheet_entry increases, so two stamps never coincide and their   *)
(* order is the order in which the reads happened.                         *)
(*                                                                         *)
(* Not modelled: names and passwords of employees (login is the choice of  *)
(* a registered employee_id), the project-name suggestion, page routing.   *)
(*                                                                         *)
(* wpre, written, floor and oseen are history variables: the program does  *)
(* not hold them, the properties read them.  Spec is the whole program;    *)
(* the properties are checked on the scenarios defined after it.           *)
(***************************************************************************)
EXTENDS Integers, Sequences, FiniteSets, TLC

VARIABLES
    employees,  \* employees table: sequence of employee_id, in rowid order
    timesheet,  \* timesheet table: sequence of rows, in rowid order
    marker,     \* contents of last_update.txt (NoFile, EmptyFile or a timestamp)
    clock,      \* the last value now.timestamp() returned to add_timesheet_entry
    budget,     \* add_timesheet_entry calls the run may still begin
    day,        \* current calendar day (IST)
    tod,        \* current time of day: index into TimePoints
    wpc,        \* employee session: position in employee_view / add_timesheet_entry
    wemp,       \* employee session: st.session_state["employee_id"]
    wargs,      \* employee session: arguments of the running add_timesheet_entry call
    wnow,       \* employee session: the local `now` of add_timesheet_entry
    wpre,       \* history: what get_last_update_time returned when the call began
    written,    \* history: the entries handed to the INSERT, as the caller holds them
    floor,      \* history: largest wpre of a call that has returned (-1: none)
    opc,        \* dashboard session: position in manager_dashboard
    ocheck,     \* dashboard session: st.session_state.last_update_check (Unset if absent)
    oemps,      \* dashboard session: employees_df of the running get_attendance_status
    oatt,       \* dashboard session: frame shown in attendance_placeholder
    ots,        \* dashboard session: frame shown in timesheet_placeholder
    oseen       \* history: number of timesheet rows committed when ots was read

vars == <<employees, timesheet, marker, clock, budget, day, tod, wpc, wemp, wargs,
          wnow, wpre, written, floor, opc, ocheck, oemps, oatt, ots, oseen>>

dbVars  == <<employees, timesheet, marker>>
wVars   == <<wpc, wemp, wargs, wnow, wpre, written, floor>>
oVars   == <<opc, ocheck, oemps, oatt, ots, oseen>>
tVars   == <<clock, budget, day, tod>>

----------------------------------------------------------------------------
(* Bounds and input sets *)

MaxEntries == 2     \* add_timesheet_entry calls in one run

Days     == {0, 1}  \* calendar days

EmpIds   == {"E1", "E2"}
Writers  == {"w1", "w2"}
Watchers == {"o1"}
Projects == {"", "Alpha"}
Tasks    == {"", "fix"}
Hours    == {1}     \* hours_worked in half hours (number_input: min 0.5, step 0.5)

\* Times of day the wall clock passes through, as <<hour, minute, second>>.
TimePoints ==
    << <<8, 29, 59>>, <<8, 30, 0>>, <<10, 0, 0>>, <<10, 0, 1>>,
       <<12, 59, 59>>, <<13, 0, 0>> >>

\* Seconds since midnight of the time of day <<hour, minute, second>>.
Secs(t) == t[1] * 3600 + t[2] * 60 + t[3]

NoEmp  == "none"
NoArgs == [employee_id |-> NoEmp, project_name |-> "", task_description |-> "",
           hours_worked |-> 0, entry_date |-> 0]
NoNow  == [ts |-> 0, time |-> <<0, 0, 0>>]

----------------------------------------------------------------------------
(* Conversions *)

\* Two decimal digits, as character codes ('0' = 48).
Fmt2(n) == <<48 + (n \div 10), 48 + (n % 10)>>

\* now.strftime("%H:%M:%S"): a string of 8 characters (':' = 58).
StrfTime(t) == Fmt2(t[1]) \o <<58>> \o Fmt2(t[2]) \o <<58>> \o Fmt2(t[3])

\* datetime.strptime(s, '%H:%M:%S').time(): back to <<hour, minute, second>>.
StrpTime(s) ==
    << (s[1] - 48) * 10 + (s[2] - 48),
       (s[4] - 48) * 10 + (s[5] - 48),
       (s[7] - 48) * 10 + (s[8] - 48) >>

\* str(date) / sqlite3's date adapter: the ISO date <<year, month, day>>.
IsoDate(d) == <<2024, 1, 1 + d>>

\* Python's str < str: lexicographic on the characters.
RECURSIVE StrLess(_, _)
StrLess(a, b) ==
    IF b = <<>> THEN FALSE
    ELSE IF a = <<>> THEN TRUE
    ELSE IF Head(a) # Head(b) THEN Head(a) < Head(b)
    ELSE StrLess(Tail(a), Tail(b))

\* datetime.time <= datetime.time: by hour, then minute, then second.
TimeLE(a, b) ==
    \/ a[1] < b[1]
    \/ a[1] = b[1] /\ a[2] < b[2]
    \/ a[1] = b[1] /\ a[2] = b[2] /\ a[3] <= b[3]

----------------------------------------------------------------------------
(* Store accessor: the queries *)

\* Place row r in a frame ordered by submission_time DESC (SQLite compares TEXT
\* bytewise); rows of equal time stay in rowid order.
RECURSIVE InsertDesc(_, _)
InsertDesc(r, s) ==
    IF s = <<>> THEN <<r>>
    ELSE IF StrLess(Head(s).submission_time, r.submission_time) THEN <<r>> \o s
    ELSE <<Head(s)>> \o InsertDesc(r, Tail(s))

RECURSIVE OrderByTimeDesc(_)
OrderByTimeDesc(s) ==
    IF s = <<>> THEN <<>>
    ELSE InsertDesc(s[Len(s)], OrderByTimeDesc(SubSeq(s, 1, Len(s) - 1)))

\* The WHERE and JOIN of get_timesheet_entries_today: rows dated `today` whose
\* employee_id has a row in employees.
TodayRows(ts, emps, today) ==
    SelectSeq(ts, LAMBDA r :
        /\ r.submission_date = IsoDate(today)
        /\ \E i \in 1..Len(emps) : emps[i] = r.employee_id)

\* get_timesheet_entries_today(), run on tables ts and emps on day `today`.
GetTimesheetEntriesToday(ts, emps, today) ==
    OrderByTimeDesc(TodayRows(ts, emps, today))

\* get_all_employees().
GetAllEmployees == employees

----------------------------------------------------------------------------
(* Attendance status engine *)

\* timesheet_today_df[timesheet_today_df['employee_id'] == emp_id]
EmpEntries(df, e) == SelectSeq(df, LAMBDA r : r.employee_id = e)

\* SeriesMin taking the first row of the frame (the latest entry, as the frame
\* is ordered by submission_time DESC) instead of the minimum.
SeriesFirst(df) == df[1].submission_time

\* emp_entries['submission_time'].min(): the least string of a non-empty frame.
RECURSIVE SeriesMin(_)
SeriesMin(df) ==
    IF Len(df) = 1 THEN df[1].submission_time
    ELSE LET m == SeriesMin(Tail(df))
         IN  IF StrLess(m, df[1].submission_time) THEN m ELSE df[1].submission_time

\* ClassifyTime with the morning window open at 10:00:00.
ClassifyTimeOpenWindow(t) ==
    IF TimeLE(<<8, 30, 0>>, t) /\ ~TimeLE(<<10, 0, 0>>, t) THEN "Present"
    ELSE IF TimeLE(<<13, 0, 0>>, t) THEN "Half-day"
    ELSE "Present (Late)"

\* The if / elif / else on first_entry_time.
ClassifyTime(t) ==
    IF TimeLE(<<8, 30, 0>>, t) /\ TimeLE(t, <<10, 0, 0>>) THEN "Present"
    ELSE IF TimeLE(<<13, 0, 0>>, t) THEN "Half-day"
    ELSE "Present (Late)"

\* The body of the loop of get_attendance_status for one employee.
EmployeeStatus(df, e) ==
    LET emp_entries == EmpEntries(df, e)
    IN  IF emp_entries = <<>> THEN "Absent"
        ELSE ClassifyTime(StrpTime(SeriesMin(emp_entries)))

\* GetAttendanceStatus looping over the employees that have entries today.
GetAttendanceStatusOfPresent(emps, df) ==
    SelectSeq([i \in 1..Len(emps) |->
                 [employee_id |-> emps[i], status |-> EmployeeStatus(df, emps[i])]],
              LAMBDA r : r.status # "Absent")

\* get_attendance_status(), given the employees frame it read and today's frame.
GetAttendanceStatus(emps, df) ==
    IF emps = <<>> THEN <<>>
    ELSE [i \in 1..Len(emps) |->
            [employee_id |-> emps[i], status |-> EmployeeStatus(df, emps[i])]]

----------------------------------------------------------------------------
(* Marker file *)

NoFile    == -1     \* last_update.txt does not exist
EmptyFile == -2     \* last_update.txt exists and holds no text
Unset     == -1     \* 'last_update_check' not in st.session_state

\* get_last_update_time(): 0.0 without a file or when float() fails on the text.
\* str(float) and float(str) are inverse, so a written timestamp reads back as
\* itself.
ReadMarker(m) ==
    IF m = NoFile THEN 0
    ELSE IF m = EmptyFile THEN 0
    ELSE m

GetLastUpdateTime == ReadMarker(marker)

----------------------------------------------------------------------------
(* Initial state: a fresh deployment, nobody logged in, no dashboard open.   *)
(* b is the number of submissions the run will make, tods the times of day   *)
(* at which it may start.                                                    *)

InitWith(b, tods) ==
    /\ employees = <<>>
    /\ timesheet = <<>>
    /\ marker = NoFile
    /\ clock = 0
    /\ budget = b
    /\ day = 0
    /\ tod \in tods
    /\ wpc = [w \in Writers |-> "out"]
    /\ wemp = [w \in Writers |-> NoEmp]
    /\ wargs = [w \in Writers |-> NoArgs]
    /\ wnow = [w \in Writers |-> NoNow]
    /\ wpre = [w \in Writers |-> 0]
    /\ written = <<>>
    /\ floor = -1
    /\ opc = [o \in Watchers |-> "closed"]
    /\ ocheck = [o \in Watchers |-> Unset]
    /\ oemps = [o \in Watchers |-> <<>>]
    /\ oatt = [o \in Watchers |-> <<>>]
    /\ ots = [o \in Watchers |-> <<>>]
    /\ oseen = [o \in Watchers |-> 0]

Init == InitWith(MaxEntries, 1..Len(TimePoints))

Registered(e) == \E i \in 1..Len(employees) : employees[i] = e

Max(a, b) == IF a >= b THEN a ELSE b

----------------------------------------------------------------------------
(* Wall clock *)

\* Time passes: later the same day, or on to the next day.
Tick(d, t) ==
    /\ \/ d = day /\ t > tod
       \/ d = day + 1
    /\ day' = d
    /\ tod' = t
    /\ UNCHANGED <<clock, budget, dbVars, wVars, oVars>>

----------------------------------------------------------------------------
(* Administration *)

\* add_employee(): the INSERT, or IntegrityError on a duplicate employee_id.
AddEmployee(e) ==
    /\ employees' = IF Registered(e) THEN employees ELSE Append(employees, e)
    /\ UNCHANGED <<timesheet, marker, tVars, wVars, oVars>>

----------------------------------------------------------------------------
(* Employee session *)

\* login_page(): check_employee_credentials() accepts a registered employee.
Login(w, e) ==
    /\ wpc[w] = "out"
    /\ Registered(e)
    /\ wemp' = [wemp EXCEPT ![w] = e]
    /\ wpc' = [wpc EXCEPT ![w] = "form"]
    /\ UNCHANGED <<dbVars, tVars, wargs, wnow, wpre, written, floor, oVars>>

\* main(): the "Logout" button, between two runs of employee_view.
Logout(w) ==
    /\ wpc[w] = "form"
    /\ wemp' = [wemp EXCEPT ![w] = NoEmp]
    /\ wpc' = [wpc EXCEPT ![w] = "out"]
    /\ UNCHANGED <<dbVars, tVars, wargs, wnow, wpre, written, floor, oVars>>

\* is_submission_allowed of employee_view.
IsSubmissionAllowed(now_time) ==
    \/ TimeLE(<<8, 30, 0>>, now_time) /\ TimeLE(now_time, <<10, 0, 0>>)
    \/ TimeLE(<<13, 0, 0>>, now_time)

\* The check before add_timesheet_entry in employee_view ("" is falsy).
FormIsFilled(p, t, h) == p # "" /\ t # "" /\ h > 0

\* Entry to add_timesheet_entry(e, p, t, h, d) in session w.
BeginAdd(w, e, p, t, h, d) ==
    /\ budget > 0
    /\ budget' = budget - 1
    /\ wpc' = [wpc EXCEPT ![w] = "adding"]
    /\ wargs' = [wargs EXCEPT ![w] =
          [employee_id |-> e, project_name |-> p, task_description |-> t,
           hours_worked |-> h, entry_date |-> d]]
    /\ wpre' = [wpre EXCEPT ![w] = GetLastUpdateTime]

\* employee_view() rerun by "Submit Task" with project p, task t, hours h and
\* date d in the form: the window check, the field check, then the call of
\* add_timesheet_entry, which runs on in Stamp .. WriteMarker.
SubmitTask(w, p, t, h, d) ==
    /\ wpc[w] = "form"
    /\ IF IsSubmissionAllowed(TimePoints[tod]) /\ FormIsFilled(p, t, h)
       THEN BeginAdd(w, wemp[w], p, t, h, d)
       ELSE UNCHANGED <<budget, wpc, wargs, wpre>>
    /\ UNCHANGED <<dbVars, clock, day, tod, wemp, wnow, written, floor, oVars>>

\* add_timesheet_entry called as a function, outside any session's form.
CallAdd(w, e, p, t, h, d) ==
    /\ wpc[w] = "out"
    /\ BeginAdd(w, e, p, t, h, d)
    /\ UNCHANGED <<dbVars, clock, day, tod, wemp, wnow, written, floor, oVars>>

\* add_timesheet_entry, line 100: now = datetime.now(IST).
Stamp(w) ==
    /\ wpc[w] = "adding"
    /\ clock' = clock + 1
    /\ wnow' = [wnow EXCEPT ![w] = [ts |-> clock + 1, time |-> TimePoints[tod]]]
    /\ wpc' = [wpc EXCEPT ![w] = "stamped"]
    /\ UNCHANGED <<dbVars, budget, day, tod, wemp, wargs, wpre, written, floor, oVars>>

\* NewRow with project_name and task_description in each other's place.
NewRowSwapped(args, now) ==
    [employee_id |-> args.employee_id,
     project_name |-> args.task_description,
     task_description |-> args.project_name,
     hours_worked |-> args.hours_worked,
     submission_date |-> IsoDate(args.entry_date),
     submission_time |-> StrfTime(now.time)]

\* The row the INSERT of add_timesheet_entry builds: the date goes through
\* sqlite3's adapter, the time through strftime.
NewRow(args, now) ==
    [employee_id |-> args.employee_id,
     project_name |-> args.project_name,
     task_description |-> args.task_description,
     hours_worked |-> args.hours_worked,
     submission_date |-> IsoDate(args.entry_date),
     submission_time |-> StrfTime(now.time)]

\* add_timesheet_entry, lines 101-106: INSERT and commit.  No connection sets
\* PRAGMA foreign_keys, so the FOREIGN KEY clause is not enforced; the NOT NULL
\* columns accept '' and 0.
Insert(w) ==
    /\ wpc[w] = "stamped"
    /\ timesheet' = Append(timesheet, NewRow(wargs[w], wnow[w]))
    /\ written' = Append(written, [args |-> wargs[w], time |-> wnow[w].time])
    /\ wpc' = [wpc EXCEPT ![w] = "inserted"]
    /\ UNCHANGED <<employees, marker, tVars, wemp, wargs, wnow, wpre, floor, oVars>>

\* add_timesheet_entry, line 107: open(LAST_UPDATE_FILE, "w") creates or
\* truncates the file.
OpenMarker(w) ==
    /\ wpc[w] = "inserted"
    /\ marker' = EmptyFile
    /\ wpc' = [wpc EXCEPT ![w] = "opened"]
    /\ UNCHANGED <<employees, timesheet, tVars, wemp, wargs, wnow, wpre, written,
                   floor, oVars>>

\* add_timesheet_entry, line 108: the text is written when the file is closed,
\* and the call returns.  Timestamps are taken to print at one length, so the
\* text of the last writer replaces what the file held.
WriteMarker(w) ==
    /\ wpc[w] = "opened"
    /\ marker' = wnow[w].ts
    /\ wpc' = [wpc EXCEPT ![w] = IF wemp[w] = NoEmp THEN "out" ELSE "form"]
    /\ floor' = Max(floor, wpre[w])
    /\ wargs' = [wargs EXCEPT ![w] = NoArgs]
    /\ wnow' = [wnow EXCEPT ![w] = NoNow]
    /\ wpre' = [wpre EXCEPT ![w] = 0]
    /\ UNCHANGED <<employees, timesheet, tVars, wemp, written, oVars>>

----------------------------------------------------------------------------
(* Dashboard session *)

\* manager_dashboard(), line 232: get_attendance_status() starts by reading the
\* employees.
Open(o) ==
    /\ opc[o] = "closed"
    /\ oemps' = [oemps EXCEPT ![o] = GetAllEmployees]
    /\ opc' = [opc EXCEPT ![o] = "render"]
    /\ UNCHANGED <<dbVars, tVars, wVars, ocheck, oatt, ots, oseen>>

\* The rest of get_attendance_status() and the get_timesheet_entries_today()
\* that follows it (lines 232-236 and 243-244): today's entries are read and
\* both placeholders are filled.
Render(o) ==
    /\ opc[o] = "render"
    /\ LET df == GetTimesheetEntriesToday(timesheet, employees, day)
       IN  /\ oatt' = [oatt EXCEPT ![o] = GetAttendanceStatus(oemps[o], df)]
           /\ ots' = [ots EXCEPT ![o] = df]
    /\ oseen' = [oseen EXCEPT ![o] = Len(timesheet)]
    /\ oemps' = [oemps EXCEPT ![o] = <<>>]
    /\ opc' = [opc EXCEPT ![o] = "poll"]
    /\ UNCHANGED <<dbVars, tVars, wVars, ocheck>>

\* Whether the loop of manager_dashboard refreshes on reading marker value m.
MustRefresh(check, m) == check = Unset \/ m > check

\* One turn of the loop of manager_dashboard (lines 239-245).
Poll(o) ==
    /\ opc[o] = "poll"
    /\ LET last_update_time == GetLastUpdateTime
       IN  IF MustRefresh(ocheck[o], last_update_time)
           THEN /\ ocheck' = [ocheck EXCEPT ![o] = last_update_time]
                /\ oemps' = [oemps EXCEPT ![o] = GetAllEmployees]
                /\ opc' = [opc EXCEPT ![o] = "render"]
           ELSE UNCHANGED <<ocheck, oemps, opc>>
    /\ UNCHANGED <<dbVars, tVars, wVars, oatt, ots, oseen>>

----------------------------------------------------------------------------
(* The program *)

Next ==
    \/ \E d \in Days, t \in 1..Len(TimePoints) : Tick(d, t)
    \/ \E e \in EmpIds : AddEmployee(e)
    \/ \E w \in Writers, e \in EmpIds : Login(w, e)
    \/ \E w \in Writers : Logout(w)
    \/ \E w \in Writers, p \in Projects, t \in Tasks, h \in Hours, d \in Days :
          SubmitTask(w, p, t, h, d)
    \/ \E w \in Writers : Stamp(w)
    \/ \E w \in Writers : Insert(w)
    \/ \E w \in Writers : OpenMarker(w)
    \/ \E w \in Writers : WriteMarker(w)
    \/ \E o \in Watchers : Open(o)
    \/ \E o \in Watchers : Render(o)
    \/ \E o \in Watchers : Poll(o)

Spec == Init /\ [][Next]_vars

----------------------------------------------------------------------------
(* Scenarios: the program with some of its actors left out.  Every behaviour  *)
(* of a scenario is a behaviour of Spec; the scenarios keep the state spaces  *)
(* of the properties below small enough to be explored in full.              *)

\* One employee session at a time, the wall clock running, no dashboard open.
NextStatus ==
    \/ \E d \in Days, t \in 1..Len(TimePoints) : Tick(d, t)
    \/ \E e \in EmpIds : AddEmployee(e)
    \/ \E e \in EmpIds : Login("w1", e)
    \/ Logout("w1")
    \/ \E p \in Projects, t \in Tasks, h \in Hours, d \in Days :
          SubmitTask("w1", p, t, h, d)
    \/ Stamp("w1")
    \/ Insert("w1")
    \/ OpenMarker("w1")
    \/ WriteMarker("w1")

SpecStatus == Init /\ [][NextStatus]_vars

\* The wall clock moves from instant a to instant b of one day in one second.
OneSecondLater(a, b) == Secs(TimePoints[b]) = Secs(TimePoints[a]) + 1

\* Tick, except that a run of employee_view takes at most a second from its
\* window check (line 170) to the stamp of add_timesheet_entry (line 100).
TickDuringRun(d, t) ==
    /\ Tick(d, t)
    /\ (\E w \in Writers : wpc[w] = "adding") => (d = day /\ OneSecondLater(tod, t))

\* NextStatus with the wall clock of TickDuringRun.
NextView ==
    \/ \E d \in Days, t \in 1..Len(TimePoints) : TickDuringRun(d, t)
    \/ \E e \in EmpIds : AddEmployee(e)
    \/ \E e \in EmpIds : Login("w1", e)
    \/ Logout("w1")
    \/ \E p \in Projects, t \in Tasks, h \in Hours, d \in Days :
          SubmitTask("w1", p, t, h, d)
    \/ Stamp("w1")
    \/ Insert("w1")
    \/ OpenMarker("w1")
    \/ WriteMarker("w1")

SpecView == Init /\ [][NextView]_vars

\* One employee session at a time and the dashboards, within one second of the
\* wall clock (08:30:00 on day 0).
NextDashboard ==
    \/ \E e \in EmpIds : AddEmployee(e)
    \/ \E e \in EmpIds : Login("w1", e)
    \/ Logout("w1")
    \/ \E p \in Projects, t \in Tasks, h \in Hours, d \in Days :
          SubmitTask("w1", p, t, h, d)
    \/ Stamp("w1")
    \/ Insert("w1")
    \/ OpenMarker("w1")
    \/ WriteMarker("w1")
    \/ \E o \in Watchers : Open(o)
    \/ \E o \in Watchers : Render(o)
    \/ \E o \in Watchers : Poll(o)

SpecDashboard == InitWith(MaxEntries, {2}) /\ [][NextDashboard]_vars

\* Concurrent employee sessions submitting entries for the current day, and the
\* dashboards, within one second of the wall clock; one submission more.
NextMarker ==
    \/ \E e \in EmpIds : AddEmployee(e)
    \/ \E w \in Writers, e \in EmpIds : Login(w, e)
    \/ \E w \in Writers, p \in Projects, t \in Tasks, h \in Hours :
          SubmitTask(w, p, t, h, day)
    \/ \E w \in Writers : Stamp(w)
    \/ \E w \in Writers : Insert(w)
    \/ \E w \in Writers : OpenMarker(w)
    \/ \E w \in Writers : WriteMarker(w)
    \/ \E o \in Watchers : Open(o)
    \/ \E o \in Watchers : Render(o)
    \/ \E o \in Watchers : Poll(o)

SpecMarker == InitWith(MaxEntries + 1, {2}) /\ [][NextMarker]_vars

\* add_timesheet_entry exercised as a function on arbitrary arguments.
ApiHours == {0, 1}

NextApi ==
    \/ \E e \in EmpIds : AddEmployee(e)
    \/ \E e \in EmpIds, p \in Projects, t \in Tasks, h \in ApiHours, d \in Days :
          CallAdd("w1", e, p, t, h, d)
    \/ Stamp("w1")
    \/ Insert("w1")
    \/ OpenMarker("w1")
    \/ WriteMarker("w1")

SpecApi == InitWith(MaxEntries, {2}) /\ [][NextApi]_vars

----------------------------------------------------------------------------
(* Vocabulary of the properties *)

\* today's frame and the status table, as a call made in this state returns them.
TodayDf == GetTimesheetEntriesToday(timesheet, employees, day)
StatusNow == GetAttendanceStatus(GetAllEmployees, TodayDf)

\* The submissions of employee e for today, as indices into the history.
TodayOf(e) ==
    {k \in 1..Len(written) :
        written[k].args.employee_id = e /\ written[k].args.entry_date = day}

\* The status the attendance rules give employee e today.
ExpectedStatus(e) ==
    LET S == {Secs(written[k].time) : k \in TodayOf(e)}
    IN  IF S = {} THEN "Absent"
        ELSE LET m == CHOOSE x \in S : \A y \in S : x <= y
             IN  IF 30600 <= m /\ m <= 36000 THEN "Present"
                 ELSE IF m >= 46800 THEN "Half-day"
                 ELSE "Present (Late)"

\* No add_timesheet_entry call is in progress.
Quiescent == \A w \in Writers : wpc[w] \in {"out", "form"}

\* The history entry rec is a row of frame df, field by field.
PresentIn(rec, df) ==
    \E j \in 1..Len(df) :
        /\ df[j].employee_id = rec.args.employee_id
        /\ df[j].project_name = rec.args.project_name
        /\ df[j].task_description = rec.args.task_description
        /\ df[j].hours_worked = rec.args.hours_worked
        /\ df[j].submission_date = IsoDate(rec.args.entry_date)
        /\ df[j].submission_time = StrfTime(rec.time)

Perms(n) == {f \in [1..n -> 1..n] : \A i, j \in 1..n : i # j => f[i] # f[j]}

----------------------------------------------------------------------------
(* Properties *)

\* C1: for every registered employee, the status get_attendance_status assigns
\* is the one determined by the earliest time among the employee's entries dated
\* today: Absent without an entry, Present for 08:30:00 <= t <= 10:00:00,
\* Half-day for t >= 13:00:00, Present (Late) otherwise.
C1_StatusByEarliest ==
    LET result == StatusNow
    IN  /\ Len(result) = Len(employees)
        /\ \A i \in 1..Len(employees) :
              /\ result[i].employee_id = employees[i]
              /\ result[i].status = ExpectedStatus(employees[i])

\* C1 witness: an employee with two entries today at different times, the
\* earlier one at the closing second of the morning window, is Present.
C1_Witness ==
    \E i \in 1..Len(employees) :
        /\ StatusNow[i].status = "Present"
        /\ \E k, l \in TodayOf(employees[i]) :
              Secs(written[k].time) = 36000 /\ Secs(written[l].time) > 36000

\* C2: when get_attendance_status returns, its result holds exactly one row for
\* every employee registered when the call read the employees and none for
\* anyone else, and an employee without an entry today is there as Absent.
C2_RosterTotal ==
    [][\A o \in Watchers :
        (opc[o] = "render" /\ opc'[o] = "poll") =>
            /\ Len(oatt'[o]) = Len(oemps[o])
            /\ \A i \in 1..Len(oemps[o]) :
                  /\ oatt'[o][i].employee_id = oemps[o][i]
                  /\ Registered(oemps[o][i])
                  /\ TodayOf(oemps[o][i]) = {} => oatt'[o][i].status = "Absent"
            /\ \A i, j \in 1..Len(oatt'[o]) :
                  i # j => oatt'[o][i].employee_id # oatt'[o][j].employee_id
            /\ oemps[o] = employees =>
                  \A e \in EmpIds :
                      Registered(e) =>
                          \E i \in 1..Len(oatt'[o]) : oatt'[o][i].employee_id = e]_vars

\* C2 witness: a dashboard shows two employees, one Absent and one not.
C2_Witness ==
    \E o \in Watchers :
        /\ opc[o] = "poll"
        /\ Len(oatt[o]) = 2
        /\ oatt[o][1].status = "Absent"
        /\ oatt[o][2].status # "Absent"

\* C3 (as claimed): once every submission has returned, get_last_update_time
\* returns the largest timestamp written (or the initial 0.0).
C3_MarkerIsMax == Quiescent => GetLastUpdateTime = clock

\* C4 (as claimed): once a submission has returned, get_last_update_time returns
\* more than it returned before that submission began; read here only while no
\* other submission is in progress.
C4_MarkerAbovePrevious == (Quiescent /\ floor >= 0) => GetLastUpdateTime > floor

\* C5 (as claimed): no update is missed: a dashboard whose next poll will not
\* refresh, while no submission is in progress, has read the store after every
\* committed entry.
C5_NoMissedUpdate ==
    \A o \in Watchers :
        (Quiescent /\ opc[o] = "poll" /\ ~MustRefresh(ocheck[o], GetLastUpdateTime))
            => oseen[o] = Len(timesheet)

\* C6 (as claimed): add_timesheet_entry rejects an entry with non-positive
\* hours, a missing project or task, or an unregistered employee, so no such row
\* is in the table.
C6_RejectsInvalid ==
    \A k \in 1..Len(timesheet) :
        /\ timesheet[k].hours_worked > 0
        /\ timesheet[k].project_name # ""
        /\ timesheet[k].task_description # ""
        /\ Registered(timesheet[k].employee_id)

\* C7 (as claimed): the row and the marker advance of one submission are seen
\* together: while the row is in today's frame, get_last_update_time no longer
\* returns what it returned before the submission.
C7_AtomicPair ==
    \A w \in Writers :
        (wpc[w] = "inserted" /\ PresentIn([args |-> wargs[w], time |-> wnow[w].time], TodayDf))
            => GetLastUpdateTime > wpre[w]

\* C8 (as claimed): every entry written is in the result of a later
\* get_timesheet_entries_today, with the same field values.
C8_RoundTripAlways ==
    LET df == TodayDf
    IN  \A k \in 1..Len(written) : PresentIn(written[k], df)

\* C8 (amended): every entry written for a registered employee is in the result
\* of a get_timesheet_entries_today made on the day the entry is dated, with the
\* same field values.
C8_RoundTripToday ==
    LET df == TodayDf
    IN  \A k \in 1..Len(written) :
            (written[k].args.entry_date = day /\ Registered(written[k].args.employee_id))
                => PresentIn(written[k], df)

\* C8 witness: two entries are written, one dated today and one dated another
\* day, and today's frame holds one row.
C8_Witness ==
    /\ Len(written) = 2
    /\ \E k, l \in 1..2 :
          written[k].args.entry_date = day /\ written[l].args.entry_date # day
    /\ Len(TodayDf) = 1

\* C9, order: the status of an employee is the same for every order of the rows
\* of today's frame.
C9_AnyOrder ==
    LET df == TodayDf
    IN  \A f \in Perms(Len(df)) :
            LET shuffled == [i \in 1..Len(df) |-> df[f[i]]]
            IN  \A e \in EmpIds :
                    EmployeeStatus(shuffled, e) = EmployeeStatus(df, e)

\* The status of employee e today over the first n rows of the timesheet table.
StatusOver(n, e) ==
    EmployeeStatus(GetTimesheetEntriesToday(SubSeq(timesheet, 1, n), employees, day), e)

\* C9, later entry: the INSERT of an entry dated today, for an employee who
\* already had an entry today at the same or an earlier time, left the
\* employee's status as it was before the INSERT.
C9_LaterEntryKeeps ==
    \A e \in EmpIds : \A k \in TodayOf(e) :
        (\E j \in TodayOf(e) : j < k /\ Secs(written[j].time) <= Secs(written[k].time))
            => StatusOver(k, e) = StatusOver(k - 1, e)

\* C9: an employee's status depends only on the earliest of today's entries:
\* it is the same for every order of the rows, and a further entry at a later
\* time does not change it.
C9_EarliestOnly == C9_AnyOrder /\ C9_LaterEntryKeeps

\* C9 witness: an employee with an entry at 08:30:00 and a later one at 13:00:00
\* today is Present.
C9_Witness ==
    \E e \in EmpIds :
        /\ EmployeeStatus(TodayDf, e) = "Present"
        /\ \E k, l \in TodayOf(e) :
              k < l /\ Secs(written[k].time) = 30600 /\ Secs(written[l].time) = 46800

\* C10 (as claimed): every entry persisted through employee_view has a time
\* inside one of the two windows.
C10_OnlyWindowTimes ==
    \A k \in 1..Len(written) :
        LET t == Secs(written[k].time)
        IN  (30600 <= t /\ t <= 36000) \/ t >= 46800

====
